---- MODULE Spec2Model ----
(***************************************************************************)
(* A model of TilingEngine (src/src/engine/engine.ts): the ordered window  *)
(* list, the arrangement pass, the reordering operations and the deferred  *)
(* re-commit of enforceClientSize.  The collaborators the engine calls     *)
(* (Window, driver, layout store, layouts, timer queue) are modelled by    *)
(* their contracts.                                                        *)
(***************************************************************************)
EXTENDS Integers, Sequences, FiniteSets, TLC

VARIABLES
    windows,     \* TilingEngine.windows: the ordered list of managed windows
    state,       \* Window.state of every window
    geometry,    \* Window.geometry (target rectangle) of every window
    noBorder,    \* Window.noBorder of every window
    context,     \* Window.context of every window
    hidden,      \* host side: window minimised, not visible in any context
    current,     \* driver.getCurrentWindow()
    curCtx,      \* driver.getCurrentContext()
    CONFIG,      \* the configuration snapshot
    layouts,     \* LayoutStore: the current layout of every context
    timers,      \* callbacks queued by KWinSetTimeout and not yet fired
    last         \* what the last operation was given and what it called

vars == <<windows, state, geometry, noBorder, context, hidden, current,
          curCtx, CONFIG, layouts, timers, last>>

(* ------------------------------ bounds --------------------------------- *)

MaxLen == 3
MaxStep == 4
MaxTimers == 2
MaxArranged == 2

(* ----------------------------- universe -------------------------------- *)

Windows == {"A", "B", "C"}
None == "none"
Contexts == {"c1", "c2"}
Steps == (0 - MaxStep)..MaxStep

Rect(x, y, w, h) == [x |-> x, y |-> y, width |-> w, height |-> h]

RectEquals(a, b) ==
    a.x = b.x /\ a.y = b.y /\ a.width = b.width /\ a.height = b.height

InitGeometry == Rect(0, 0, 1, 1)

getWorkingArea(ctx) == IF ctx = "c1" THEN Rect(0, 0, 4, 2) ELSE Rect(4, 0, 2, 3)

\* gaps that fit the working areas and gaps that exceed them, with either
\* value of each toggle
ConfigChoices ==
    {[screenGapLeft |-> g[1], screenGapTop |-> g[2], screenGapRight |-> g[3],
      screenGapBottom |-> g[4], maximizeSoleTile |-> m, noTileBorder |-> b] :
        g \in {<<1, 0, 2, 1>>, <<2, 3, 3, 0>>}, m \in BOOLEAN, b \in BOOLEAN}

(* --------------------------- array helpers ----------------------------- *)

\* Array.prototype.indexOf: 0-based index of the first occurrence, -1 if none
indexOf(arr, v) ==
    IF \E i \in 1..Len(arr) : arr[i] = v
    THEN (CHOOSE i \in 1..Len(arr) :
              arr[i] = v /\ \A j \in 1..(i - 1) : arr[j] # v) - 1
    ELSE 0 - 1

\* arr[i] with a 0-based index; undefined (None) outside the array
at(arr, i) == IF i \in 0..(Len(arr) - 1) THEN arr[i + 1] ELSE None

\* arr[i] = v with a 0-based index; a negative index sets a property of the
\* array object and leaves its elements alone
arraySet(arr, i, v) ==
    IF i \in 0..(Len(arr) - 1) THEN [arr EXCEPT ![i + 1] = v] ELSE arr

\* arr.splice(i, 1)
splice1(arr, i) ==
    [j \in 1..(Len(arr) - 1) |-> IF j <= i THEN arr[j] ELSE arr[j + 1]]

\* the % operator of the language: the result takes the sign of the dividend
jsRem(a, n) == IF a >= 0 THEN a % n ELSE 0 - ((0 - a) % n)

Range(arr) == {arr[i] : i \in 1..Len(arr)}

(* ------------------------------ Window --------------------------------- *)

visible(w, ctx) == ~hidden[w] /\ context[w] = ctx

visiblesIn(arr, ctx) == SelectSeq(arr, LAMBDA w : visible(w, ctx))

visiblesOf(ctx) == visiblesIn(windows, ctx)

(* --------------------------- history record ---------------------------- *)

NoCall ==
    [op |-> "init", win |-> None, ctx |-> None, step |-> 0, pre |-> <<>>,
     idx |-> 0 - 1, num |-> 0, orig |-> <<>>, paired |-> FALSE,
     firstIdx |-> 0 - 1,
     focus |-> <<>>, applied |-> <<>>, commits |-> <<>>,
     repeat |-> FALSE, promoted |-> {}, prevPromoted |-> {},
     scheduled |-> FALSE, differs |-> FALSE, managedAtSchedule |-> FALSE,
     ignore |-> FALSE, float |-> FALSE,
     input |-> None, data |-> None, handled |-> FALSE, calls |-> 0,
     screens |-> <<>>, preState |-> None, origState |-> None]

(* ------------------------------- Init ---------------------------------- *)

\* the engine after construction, no window created yet
InitEngine ==
    /\ windows = <<>>
    /\ state = [w \in Windows |-> "Unmanaged"]
    /\ geometry = [w \in Windows |-> InitGeometry]
    /\ noBorder = [w \in Windows |-> FALSE]
    /\ hidden = [w \in Windows |-> FALSE]
    /\ current = None
    /\ layouts = [c \in Contexts |-> IF c = "c1" THEN "stair" ELSE "monocle"]
    /\ timers = <<>>
    /\ last = NoCall

DefaultConfig ==
    [screenGapLeft |-> 0, screenGapTop |-> 0, screenGapRight |-> 0,
     screenGapBottom |-> 0, maximizeSoleTile |-> FALSE, noTileBorder |-> FALSE]

\* one screen layout and the default configuration
InitOrder ==
    /\ InitEngine
    /\ context = [w \in Windows |-> "c1"]
    /\ curCtx = "c1"
    /\ CONFIG = DefaultConfig

\* the same, on either of the two contexts
InitFocus ==
    /\ InitEngine
    /\ context = [w \in Windows |-> "c1"]
    /\ curCtx \in Contexts
    /\ CONFIG = DefaultConfig

(* ------------------------- manage / unmanage --------------------------- *)

\* the window put in front of the list instead of behind it
manageClientListFront(arr, w, shouldIgnore) ==
    IF ~shouldIgnore THEN <<w>> \o arr ELSE arr

manageClientList(arr, w, shouldIgnore) ==
    IF ~shouldIgnore THEN Append(arr, w) ELSE arr

ManageClient(w, shouldIgnore, shouldFloat) ==
    /\ Len(windows) < MaxLen
    /\ windows' = manageClientList(windows, w, shouldIgnore)
    /\ state' = IF ~shouldIgnore
                THEN [state EXCEPT ![w] = IF shouldFloat THEN "Float" ELSE "Tile"]
                ELSE state
    /\ last' = [NoCall EXCEPT !.op = "manageClient", !.win = w, !.pre = windows,
                              !.ignore = shouldIgnore, !.float = shouldFloat]
    /\ UNCHANGED <<geometry, noBorder, context, hidden, current, curCtx,
                   CONFIG, layouts, timers>>

unmanageClientList(arr, w) ==
    LET idx == indexOf(arr, w)
    IN  IF idx >= 0 THEN splice1(arr, idx) ELSE arr

UnmanageClient(w) ==
    /\ windows' = unmanageClientList(windows, w)
    /\ last' = [NoCall EXCEPT !.op = "unmanageClient", !.win = w, !.pre = windows]
    /\ UNCHANGED <<state, geometry, noBorder, context, hidden, current, curCtx,
                   CONFIG, layouts, timers>>

(* ------------------------------- host ---------------------------------- *)

\* the driver reports another current window (any window, managed or not)
HostSetCurrent(w) ==
    /\ current # w
    /\ current' = w
    /\ last' = [NoCall EXCEPT !.op = "host"]
    /\ UNCHANGED <<windows, state, geometry, noBorder, context, hidden, curCtx,
                   CONFIG, layouts, timers>>

\* the host minimises or restores a window
HostToggleHidden(w) ==
    /\ hidden' = [hidden EXCEPT ![w] = ~hidden[w]]
    /\ last' = [NoCall EXCEPT !.op = "host"]
    /\ UNCHANGED <<windows, state, geometry, noBorder, context, current, curCtx,
                   CONFIG, layouts, timers>>

(* ------------------------------ moveFocus ------------------------------ *)

\* the index computation without the "+ num" normalisation
cyclicIndexNoNorm(idx, step, num) == jsRem(idx + jsRem(step, num), num)

cyclicIndex(idx, step, num) == jsRem(idx + jsRem(step, num) + num, num)

\* the windows moveFocus(step) passes to driver.setCurrentWindow
moveFocusTarget(arr, window, step) ==
    LET ctx == IF window # None THEN context[window] ELSE curCtx
        visibles == visiblesIn(arr, ctx)
        idx == IF window # None THEN indexOf(visibles, window) ELSE 0 - 1
        num == Len(visibles)
        newIndex == cyclicIndex(idx, step, num)
    IN  IF step = 0 \/ num = 0 THEN <<>>
        ELSE IF window = None \/ idx < 0 THEN <<visibles[1]>>
        ELSE <<at(visibles, newIndex)>>

MoveFocus(step) ==
    LET window == current
        ctx == IF window # None THEN context[window] ELSE curCtx
        visibles == visiblesOf(ctx)
        idx == IF window # None THEN indexOf(visibles, window) ELSE 0 - 1
        num == Len(visibles)
        target == moveFocusTarget(windows, window, step)
    IN  /\ current' = IF target = <<>> THEN current ELSE target[1]
        /\ last' = [NoCall EXCEPT !.op = "moveFocus", !.win = window,
                                  !.ctx = ctx, !.step = step, !.pre = windows,
                                  !.idx = idx, !.num = num, !.focus = target]
        /\ UNCHANGED <<windows, state, geometry, noBorder, context, hidden,
                       curCtx, CONFIG, layouts, timers>>

(* ------------------------------ moveTile ------------------------------- *)

moveTileList(arr, srcWin, visibles, step) ==
    LET num == Len(visibles)
        srcIdx == indexOf(visibles, srcWin)
        destIdx == cyclicIndex(srcIdx, step, num)
        destWin == at(visibles, destIdx)
        srcListIdx == indexOf(arr, srcWin)
        destListIdx == indexOf(arr, destWin)
    IN  IF step = 0 \/ srcWin = None \/ num < 2 \/ srcIdx = destIdx
        THEN arr
        ELSE arraySet(arraySet(arr, destListIdx, srcWin), srcListIdx, destWin)

MoveTile(step) ==
    LET srcWin == current
        ctx == IF srcWin # None THEN context[srcWin] ELSE None
        visibles == IF srcWin # None THEN visiblesOf(ctx) ELSE <<>>
        \* this call directly follows moveTile(-step) on the same window
        paired == /\ last.op = "moveTile" /\ last.win = srcWin
                  /\ step # 0 /\ last.step = 0 - step
    IN  /\ windows' = moveTileList(windows, srcWin, visibles, step)
        /\ last' = [NoCall EXCEPT !.op = "moveTile", !.win = srcWin,
                                  !.ctx = ctx, !.step = step, !.pre = windows,
                                  !.idx = indexOf(visibles, srcWin),
                                  !.num = Len(visibles),
                                  !.paired = paired,
                                  !.firstIdx = IF paired THEN last.idx ELSE 0 - 1,
                                  !.orig = IF paired THEN last.pre ELSE <<>>]
        /\ UNCHANGED <<state, geometry, noBorder, context, hidden, current,
                       curCtx, CONFIG, layouts, timers>>

(* ------------------------------ setMaster ------------------------------ *)

\* promotion done as an exchange with the window at index 0
setMasterListSwap(arr, w) ==
    LET idx == indexOf(arr, w)
    IN  IF at(arr, 0) = w \/ idx < 0
        THEN arr
        ELSE arraySet(arraySet(arr, 0, w), idx, arr[1])

setMasterList(arr, w) ==
    LET idx == indexOf(arr, w)
    IN  IF at(arr, 0) = w \/ idx < 0
        THEN arr
        ELSE <<w>> \o splice1(arr, idx)

SetMaster(w) ==
    /\ windows' = setMasterList(windows, w)
    /\ last' = [NoCall EXCEPT !.op = "setMaster", !.win = w, !.pre = windows,
                              !.idx = indexOf(windows, w)]
    /\ UNCHANGED <<state, geometry, noBorder, context, hidden, current, curCtx,
                   CONFIG, layouts, timers>>

(* ------------------------------ layouts -------------------------------- *)

LayoutNames == {"monocle", "stair"}

\* the rectangle a layout gives to the tile at 0-based index i: the monocle
\* layout gives every tile the working area, the stair layout shifts each
\* tile one unit further right and down inside it
layoutRect(name, i, workingArea, fullArea) ==
    IF name = "monocle"
    THEN workingArea
    ELSE Rect(workingArea.x + i, workingArea.y + i,
              workingArea.width - i, workingArea.height - i)

\* layout.apply(tiles, workingArea, fullArea): geometries assigned in place,
\* tile after tile
layoutApply(name, geom, tiles, workingArea, fullArea) ==
    [w \in Windows |->
        IF w \in Range(tiles)
        THEN LET i == CHOOSE i \in 1..Len(tiles) :
                          tiles[i] = w /\ \A j \in (i + 1)..Len(tiles) : tiles[j] # w
             IN  layoutRect(name, i - 1, workingArea, fullArea)
        ELSE geom[w]]

(* ---------------------------- arrangeScreen ---------------------------- *)

\* the right and bottom gaps subtracted without the parentheses
workingAreaOfNoParens(fullArea) ==
    Rect(fullArea.x + CONFIG.screenGapLeft,
         fullArea.y + CONFIG.screenGapTop,
         fullArea.width - CONFIG.screenGapLeft + CONFIG.screenGapRight,
         fullArea.height - CONFIG.screenGapTop + CONFIG.screenGapBottom)

workingAreaOf(fullArea) ==
    Rect(fullArea.x + CONFIG.screenGapLeft,
         fullArea.y + CONFIG.screenGapTop,
         fullArea.width - (CONFIG.screenGapLeft + CONFIG.screenGapRight),
         fullArea.height - (CONFIG.screenGapTop + CONFIG.screenGapBottom))

\* the tile filter without the FreeTile case
isTileStateOnlyTile(s) == s = "Tile"

isTileState(s) == s = "Tile" \/ s = "FreeTile"

tilesOf(visibles, st) == SelectSeq(visibles, LAMBDA w : isTileState(st[w]))

\* the reset loop without the promotion
resetStateKeep(st, visibles) == st

\* the "reset all properties" loop: the state of a visible window after it
resetState(st, visibles) ==
    [w \in Windows |->
        IF w \in Range(visibles) /\ st[w] = "FreeTile" THEN "Tile" ELSE st[w]]

\* the border flag reset on every visible window, whatever its state
resetNoBorderAll(nb, st1, visibles) ==
    [w \in Windows |->
        IF w \in Range(visibles) THEN CONFIG.noTileBorder ELSE nb[w]]

resetNoBorder(nb, st1, visibles) ==
    [w \in Windows |->
        IF w \in Range(visibles) /\ st1[w] = "Tile"
        THEN CONFIG.noTileBorder ELSE nb[w]]

soleTile(tiles) == CONFIG.maximizeSoleTile /\ Len(tiles) = 1

\* one arrangeScreen(ctx) pass over the window fields f = [state, geometry,
\* noBorder]; the result adds the apply calls and the commits it made
arrangeScreenOn(f, ctx, arr, store) ==
    LET layout == store[ctx]
        fullArea == getWorkingArea(ctx)
        workingArea == workingAreaOf(fullArea)
        visibles == visiblesIn(arr, ctx)
        tiles == tilesOf(visibles, f.state)
        st1 == resetState(f.state, visibles)
        nb1 == resetNoBorder(f.noBorder, st1, visibles)
    IN  [state |-> st1,
         noBorder |-> IF soleTile(tiles)
                      THEN [nb1 EXCEPT ![tiles[1]] = TRUE] ELSE nb1,
         geometry |-> IF soleTile(tiles)
                      THEN [f.geometry EXCEPT ![tiles[1]] = fullArea]
                      ELSE IF Len(tiles) > 0
                      THEN layoutApply(layout, f.geometry, tiles, workingArea, fullArea)
                      ELSE f.geometry,
         applied |-> IF ~soleTile(tiles) /\ Len(tiles) > 0
                     THEN <<[layout |-> layout, tiles |-> tiles,
                             workingArea |-> workingArea, fullArea |-> fullArea]>>
                     ELSE <<>>,
         commits |-> visibles]

arrangeScreen(f, ctx) == arrangeScreenOn(f, ctx, windows, layouts)

fields == [state |-> state, geometry |-> geometry, noBorder |-> noBorder]

ArrangeScreen(ctx) ==
    LET r == arrangeScreen(fields, ctx)
        promoted == {w \in Windows : state[w] = "FreeTile" /\ r.state[w] = "Tile"}
        \* this call directly follows an arrangeScreen of the same context
        repeat == last.op = "arrangeScreen" /\ last.ctx = ctx
    IN  /\ state' = r.state
        /\ geometry' = r.geometry
        /\ noBorder' = r.noBorder
        /\ last' = [NoCall EXCEPT !.op = "arrangeScreen", !.ctx = ctx,
                                  !.applied = r.applied,
                                  !.commits = r.commits,
                                  !.promoted = promoted,
                                  !.repeat = repeat,
                                  !.prevPromoted =
                                      IF repeat THEN last.promoted ELSE {}]
        /\ UNCHANGED <<windows, context, hidden, current, curCtx, CONFIG,
                       layouts, timers>>

\* the host changes the state of a managed window (a user drags a tile, a
\* window leaves full screen, ...)
HostSetState(w, s) ==
    /\ w \in Range(windows)
    /\ state[w] # s
    /\ state' = [state EXCEPT ![w] = s]
    /\ last' = [NoCall EXCEPT !.op = "host"]
    /\ UNCHANGED <<windows, geometry, noBorder, context, hidden, current,
                   curCtx, CONFIG, layouts, timers>>

(* ------------------------------- arrange ------------------------------- *)

\* the contexts driver.forEachScreen visits, in its order
ScreenOrder == <<"c1", "c2">>

RECURSIVE arrangeFrom(_, _, _, _)
\* forEachScreen from the i-th context on: one arrangeScreen for each
arrangeFrom(acc, arr, store, i) ==
    IF i > Len(ScreenOrder)
    THEN acc
    ELSE CHOOSE res \in
             {arrangeFrom(next, arr, store, i + 1) :
                 next \in
                   {[state |-> r.state, geometry |-> r.geometry,
                     noBorder |-> r.noBorder,
                     applied |-> acc.applied \o r.applied,
                     commits |-> acc.commits \o r.commits,
                     screens |-> Append(acc.screens, ScreenOrder[i]),
                     calls |-> acc.calls] :
                       r \in {arrangeScreenOn(acc, ScreenOrder[i], arr, store)}}} :
             TRUE

\* no arrange() call at all
arrangeSkipped(f, arr, store) ==
    [state |-> f.state, geometry |-> f.geometry, noBorder |-> f.noBorder,
     applied |-> <<>>, commits |-> <<>>, screens |-> <<>>, calls |-> 0]

\* one arrange() call on the window fields f
arrange(f, arr, store) ==
    arrangeFrom([state |-> f.state, geometry |-> f.geometry,
                 noBorder |-> f.noBorder, applied |-> <<>>, commits |-> <<>>,
                 screens |-> <<>>, calls |-> 1], arr, store, 1)

Arrange ==
    \E r \in {arrange(fields, windows, layouts)} :
        /\ state' = r.state
        /\ geometry' = r.geometry
        /\ noBorder' = r.noBorder
        /\ last' = [NoCall EXCEPT !.op = "arrange", !.pre = windows,
                                  !.applied = r.applied, !.commits = r.commits,
                                  !.screens = r.screens, !.calls = r.calls]
        /\ UNCHANGED <<windows, context, hidden, current, curCtx, CONFIG,
                       layouts, timers>>

(* --------------------------- handleUserInput --------------------------- *)

\* the UserInput kinds; "Left" stands for the kinds the switch has no case for
UserInputs ==
    {"Up", "Down", "ShiftUp", "ShiftDown", "SetMaster", "Float",
     "CycleLayout", "SetLayout", "Left"}

\* layouts that define handleUserInput
hasHandler(name) == name = "stair"

\* LayoutStore.cycleLayout: the next layout of the context
cycleLayout(store, ctx) ==
    [store EXCEPT ![ctx] = IF store[ctx] = "monocle" THEN "stair" ELSE "monocle"]

\* LayoutStore.setLayout
setLayout(store, ctx, name) == [store EXCEPT ![ctx] = name]

\* the Float case that only ever floats the window
toggleFloatOneWay(st, w) == [st EXCEPT ![w] = "Float"]

\* "window.state = (window.state === WindowState.Float) ? Tile : Float"
toggleFloat(st, w) ==
    [st EXCEPT ![w] = IF st[w] = "Float" THEN "Tile" ELSE "Float"]

\* the override test that never lets the layout take the input
overridenNever(layout, handled) == FALSE

\* "if (layout.handleUserInput) { overriden = ...; if (overriden) ..."
overriden(layout, handled) == hasHandler(layout) /\ handled

\* the switch: the list, states, current window and layout store it leaves
dispatch(input, data) ==
    LET base == [windows |-> windows, state |-> state, current |-> current,
                 layouts |-> layouts, focus |-> <<>>]
        focusBy(step) ==
            LET t == moveFocusTarget(windows, current, step)
            IN  [base EXCEPT !.focus = t,
                             !.current = IF t = <<>> THEN current ELSE t[1]]
        tileBy(step) ==
            [base EXCEPT !.windows =
                moveTileList(windows, current,
                             IF current # None
                             THEN visiblesOf(context[current]) ELSE <<>>, step)]
    IN  CASE input = "Up" -> focusBy(0 - 1)
          [] input = "Down" -> focusBy(1)
          [] input = "ShiftUp" -> tileBy(0 - 1)
          [] input = "ShiftDown" -> tileBy(1)
          [] input = "SetMaster" ->
                IF current # None
                THEN [base EXCEPT !.windows = setMasterList(windows, current)]
                ELSE base
          [] input = "Float" ->
                IF current # None
                THEN [base EXCEPT !.state = toggleFloat(state, current)]
                ELSE base
          [] input = "CycleLayout" ->
                [base EXCEPT !.layouts = cycleLayout(layouts, curCtx)]
          [] input = "SetLayout" ->
                [base EXCEPT !.layouts = setLayout(layouts, curCtx, data)]
          [] OTHER -> base

\* the overridden branch returning without its arrange()
afterOverrideNoArrange(f, arr, store) == arrangeSkipped(f, arr, store)

\* "if (overriden) { this.arrange(); return; }"
afterOverride(f, arr, store) == arrange(f, arr, store)

\* handled: what the handler of the layout, when it has one, returns
HandleUserInput(input, data, handled) ==
    LET layout == layouts[curCtx]
        taken == overriden(layout, handled)
        \* this call directly follows a Float input on the same current
        \* window that the layout did not take
        paired == /\ last.op = "handleUserInput" /\ last.input = "Float"
                  /\ input = "Float" /\ last.win = current /\ ~last.handled
                  /\ ~(hasHandler(layout) /\ handled)
    IN  \* data comes with SetLayout only; without a handler nothing is returned
        /\ (data # None) = (input = "SetLayout")
        /\ handled => hasHandler(layout)
        /\ \E d \in {dispatch(input, data)} :
           \E r \in {IF taken
                      THEN afterOverride(fields, windows, layouts)
                      ELSE arrange([state |-> d.state, geometry |-> geometry,
                                    noBorder |-> noBorder],
                                   d.windows, d.layouts)} :
             /\ windows' = IF taken THEN windows ELSE d.windows
             /\ current' = IF taken THEN current ELSE d.current
             /\ layouts' = IF taken THEN layouts ELSE d.layouts
             /\ state' = r.state
             /\ geometry' = r.geometry
             /\ noBorder' = r.noBorder
             /\ last' = [NoCall EXCEPT
                           !.op = "handleUserInput", !.input = input,
                           !.data = data, !.win = current, !.ctx = curCtx,
                           !.handled = (hasHandler(layout) /\ handled),
                           !.focus = IF taken THEN <<>> ELSE d.focus,
                           !.screens = r.screens, !.calls = r.calls,
                           !.preState =
                               IF current # None THEN state[current] ELSE None,
                           !.paired = paired,
                           !.origState = IF paired THEN last.preState ELSE None]
        /\ UNCHANGED <<context, hidden, curCtx, CONFIG, timers>>

(* --------------------------- enforceClientSize ------------------------- *)

\* rectangles the host may report as the observed geometry of a window
ObservedRects == {InitGeometry, getWorkingArea("c1"), getWorkingArea("c2")}

shouldSchedule(st, w, actualGeometry) ==
    st[w] = "Tile" /\ ~RectEquals(actualGeometry, geometry[w])

EnforceClientSize(w, actualGeometry) ==
    LET scheduled == shouldSchedule(state, w, actualGeometry)
    IN  /\ Len(timers) < MaxTimers
        /\ timers' = IF scheduled
                      THEN Append(timers, [win |-> w,
                                           managed |-> w \in Range(windows)])
                      ELSE timers
        /\ last' = [NoCall EXCEPT !.op = "enforceClientSize", !.win = w,
                                  !.differs = (actualGeometry # geometry[w]),
                                  !.scheduled = (timers' # timers)]
        /\ UNCHANGED <<windows, state, geometry, noBorder, context, hidden,
                       current, curCtx, CONFIG, layouts>>

\* the callback without its re-check
timerCallbackNoCheck(st, w) == <<w>>

\* the commits made by the deferred callback of window w
timerCallback(st, w) == IF st[w] = "Tile" THEN <<w>> ELSE <<>>

\* the oldest pending timer fires (equal delays fire in the order queued)
TimerFire ==
    /\ timers # <<>>
    /\ timers' = Tail(timers)
    /\ last' = [NoCall EXCEPT !.op = "timer", !.win = Head(timers).win,
                              !.commits = timerCallback(state, Head(timers).win),
                              !.managedAtSchedule = Head(timers).managed]
    /\ UNCHANGED <<windows, state, geometry, noBorder, context, hidden,
                   current, curCtx, CONFIG, layouts>>

(* --------------------------- specifications ---------------------------- *)


NextManage ==
    \/ \E w \in Windows, i \in BOOLEAN, f \in BOOLEAN : ManageClient(w, i, f)
    \/ \E w \in Windows : UnmanageClient(w)

NextHost ==
    \/ \E w \in Windows \cup {None} : HostSetCurrent(w)
    \/ \E w \in Windows : HostToggleHidden(w)

\* the host creates and destroys plain windows (not ignored, not floating)
NextPlain ==
    \/ \E w \in Windows : ManageClient(w, FALSE, FALSE)
    \/ \E w \in Windows : UnmanageClient(w)

NextTile ==
    \/ NextPlain
    \/ NextHost
    \/ \E s \in Steps : MoveTile(s)

NextFocus ==
    \/ NextPlain
    \/ NextHost
    \/ \E s \in Steps : MoveFocus(s)

NextMaster ==
    \/ NextManage
    \/ \E w \in Windows : SetMaster(w)

SpecManage == InitOrder /\ [][NextManage]_vars
SpecTile == InitOrder /\ [][NextTile]_vars
SpecFocus == InitFocus /\ [][NextFocus]_vars
SpecMaster == InitOrder /\ [][NextMaster]_vars

\* manageClient of a plain window while fewer than MaxArranged are managed
ManageArranged(w) ==
    /\ Len(windows) < MaxArranged
    /\ ManageClient(w, FALSE, FALSE)

\* two screens, any of the configurations
InitArrange ==
    /\ InitEngine
    /\ context = [w \in Windows |-> IF w = "C" THEN "c2" ELSE "c1"]
    /\ curCtx = "c1"
    /\ CONFIG \in ConfigChoices

NextArrange ==
    \/ \E w \in Windows : ManageArranged(w)
    \/ \E w \in Windows, s \in {"Tile", "FreeTile", "Float"} : HostSetState(w, s)
    \/ \E c \in Contexts : ArrangeScreen(c)

SpecArrange == InitArrange /\ [][NextArrange]_vars

\* two screens, the default configuration
InitInput ==
    /\ InitEngine
    /\ context = [w \in Windows |-> IF w = "C" THEN "c2" ELSE "c1"]
    /\ curCtx = "c1"
    /\ CONFIG = DefaultConfig

\* the driver reports a managed window, or none, as the current window
HostFocusManaged(w) ==
    /\ w \in Range(windows) \cup {None}
    /\ HostSetCurrent(w)

NextInput ==
    \/ \E w \in Windows : ManageArranged(w)
    \/ \E w \in Windows, s \in {"Tile", "FreeTile", "Float"} : HostSetState(w, s)
    \/ \E w \in Windows \cup {None} : HostFocusManaged(w)
    \/ \E i \in UserInputs, d \in LayoutNames \cup {None}, h \in BOOLEAN :
           HandleUserInput(i, d, h)

SpecInput == InitInput /\ [][NextInput]_vars

NextTimer ==
    \/ NextPlain
    \/ \E w \in Windows, s \in {"Tile", "Float"} : HostSetState(w, s)
    \/ \E w \in Windows, a \in ObservedRects : EnforceClientSize(w, a)
    \/ TimerFire

SpecTimer == InitOrder /\ [][NextTimer]_vars

(* ------------------------------ claims --------------------------------- *)

\* C1: after any sequence of manageClient and unmanageClient calls the
\* window list contains each window at most once.
C1_NoDuplicates ==
    \A i, j \in 1..Len(windows) : i # j => windows[i] # windows[j]

\* C2: moveTile(S) directly followed by moveTile(-S), with the same current
\* window that is managed and visible in its context, restores the order of
\* the whole window list.
C2_MoveTileRoundTrip ==
    (last.op = "moveTile" /\ last.paired /\ last.firstIdx >= 0)
        => windows = last.orig

\* C3: setMaster(w) with w at index k > 0 puts w at index 0, the windows of
\* indices 0..k-1 at 1..k in the same order and leaves the windows after k
\* alone; it changes nothing when w is at index 0 or not in the list.
C3_SetMasterMovesToFront ==
    last.op = "setMaster" =>
        LET k == last.idx
            pre == last.pre
        IN  IF k > 0
            THEN /\ Len(windows) = Len(pre)
                 /\ windows[1] = last.win
                 /\ \A i \in 1..k : windows[i + 1] = pre[i]
                 /\ \A i \in (k + 2)..Len(pre) : windows[i] = pre[i]
            ELSE windows = pre

C3_Witness ==
    /\ last.op = "setMaster" /\ last.idx = 1 /\ Len(last.pre) = 3
    /\ windows # last.pre
    /\ Cardinality(Range(windows)) = 3

\* C4: with N >= 1 windows visible in the current window's context and a
\* non-zero step S, moveFocus(S) asks the driver to focus the window at
\* visible index (i + S) mod N, the modulo taken in 0..N-1; without a current
\* window, or with one outside the visible subset, it asks for the first
\* visible window; step 0 asks for nothing.
C4_MoveFocusCyclic ==
    last.op = "moveFocus" =>
        LET visibles == visiblesOf(last.ctx)
            N == Len(visibles)
        IN  /\ N = last.num
            /\ last.step = 0 => last.focus = <<>>
            /\ (last.step # 0 /\ N >= 1) =>
                   IF last.win = None \/ last.idx < 0
                   THEN last.focus = <<visibles[1]>>
                   ELSE last.focus = <<visibles[((last.idx + last.step) % N) + 1]>>

C4_Witness ==
    /\ last.op = "moveFocus" /\ last.num = 3 /\ last.idx = 0
    /\ last.step = 0 - 4
    /\ Cardinality(Range(visiblesOf(last.ctx))) = 3
    /\ last.focus = <<visiblesOf(last.ctx)[3]>>

\* C5: with sole-tile maximisation enabled and exactly one window visible in
\* ctx that is Tile or FreeTile, arrangeScreen(ctx) leaves that window with
\* the full (pre-gap) working area as geometry and borderless, and does not
\* invoke the layout's apply.
C5_SoleTileMaximized ==
    (last.op = "arrangeScreen" /\ CONFIG.maximizeSoleTile) =>
        LET tiled == {w \in Range(visiblesOf(last.ctx)) : state[w] = "Tile"}
        IN  Cardinality(tiled) = 1 =>
                \A w \in tiled :
                    /\ RectEquals(geometry[w], getWorkingArea(last.ctx))
                    /\ noBorder[w]
                    /\ last.applied = <<>>

\* C6: a second arrangeScreen(ctx) directly after a first one, with nothing
\* changed in between, leaves the geometry, borderless flag and state of
\* every window as the first call left them.
C6_ArrangeIdempotent ==
    [][(last.op = "arrangeScreen" /\ last'.op = "arrangeScreen"
            /\ last'.ctx = last.ctx)
        => (geometry' = geometry /\ noBorder' = noBorder /\ state' = state)]_vars

C6_Witness ==
    /\ last.op = "arrangeScreen" /\ last.repeat
    /\ last.prevPromoted # {}
    /\ last.applied # <<>> /\ Len(last.applied[1].tiles) >= 2

\* C7: an arrangeScreen(ctx) pass turns every FreeTile window visible in ctx
\* into Tile, so that none is FreeTile after it, and no arrangeScreen pass
\* moves a Tile window to another state.
C7_FreeTilePromotedOnce ==
    [][last'.op = "arrangeScreen" =>
        \A w \in Windows :
            /\ (w \in Range(windows') /\ ~hidden'[w]
                    /\ context'[w] = last'.ctx)
                   => (state'[w] # "FreeTile"
                       /\ (state[w] = "FreeTile" => state'[w] = "Tile"))
            /\ state[w] = "Tile" => state'[w] = "Tile"]_vars

C7_Witness ==
    /\ last.op = "arrangeScreen" /\ last.promoted # {}
    /\ \A w \in last.promoted : state[w] = "Tile"

\* C8: whenever arrangeScreen delegates to the layout, with gaps (L,T,R,B)
\* and full area (x,y,w,h), apply receives (x+L, y+T, w-L-R, h-T-B) as the
\* working area and the full area itself as third argument; a zero or
\* negative width or height is passed on as it is.
C8_GapsApplied ==
    (last.op = "arrangeScreen" /\ last.applied # <<>>) =>
        LET full == getWorkingArea(last.ctx)
            call == last.applied[1]
        IN  /\ Len(last.applied) = 1
            /\ call.workingArea.x = full.x + CONFIG.screenGapLeft
            /\ call.workingArea.y = full.y + CONFIG.screenGapTop
            /\ call.workingArea.width =
                   (full.width - CONFIG.screenGapLeft) - CONFIG.screenGapRight
            /\ call.workingArea.height =
                   (full.height - CONFIG.screenGapTop) - CONFIG.screenGapBottom
            /\ call.fullArea = full

C8_Witness ==
    /\ last.op = "arrangeScreen" /\ last.applied # <<>>
    /\ last.applied[1].workingArea.width < 0
    /\ last.applied[1].workingArea.x > last.applied[1].fullArea.x

\* C9: the deferred callback of enforceClientSize(w) commits w only when w
\* is Tile at the moment the timer fires, whatever ran in between; and
\* enforceClientSize schedules nothing when w is not Tile or its observed
\* geometry equals its target geometry.
C9_DeferredCommitRechecks ==
    /\ last.op = "timer" =>
           (last.commits # <<>> =>
               (state[last.win] = "Tile" /\ last.commits = <<last.win>>))
    /\ last.op = "enforceClientSize" =>
           (last.scheduled => (state[last.win] = "Tile" /\ last.differs))

C9_Witness ==
    /\ last.op = "timer" /\ last.managedAtSchedule
    /\ last.win \in Range(windows)
    /\ state[last.win] = "Float"
    /\ last.commits = <<>>

\* C10: a window removed with unmanageClient between the scheduling of its
\* deferred re-commit and the firing of the timer is not committed by the
\* callback.
C10_NoCommitAfterUnmanage ==
    (last.op = "timer" /\ last.managedAtSchedule
        /\ last.win \notin Range(windows))
        => last.commits = <<>>

\* the number of entries of arr that hold window w
count(arr, w) == Cardinality({i \in 1..Len(arr) : arr[i] = w})

\* the 1-based list position of the entry at 0-based visible index k of arr
visiblePos(arr, ctx, k) ==
    CHOOSE j \in 1..Len(arr) :
        /\ visible(arr[j], ctx)
        /\ Cardinality({m \in 1..(j - 1) : visible(arr[m], ctx)}) = k

\* the list before the last call held every window at most once
preNoDuplicates == Cardinality(Range(last.pre)) = Len(last.pre)

\* C12: after unmanageClient(w), w is not in the window list and the other
\* windows keep their relative order; when w was not in the list the list
\* is unchanged.
C12_UnmanageRemoves ==
    last.op = "unmanageClient" =>
        /\ last.win \notin Range(windows)
        /\ windows = SelectSeq(last.pre, LAMBDA v : v # last.win)

\* C13: manageClient(w) leaves the list and the state of w alone when w is
\* to be ignored; otherwise it appends w at the end of the list, the other
\* entries staying where they are, and sets the state of w to Float when w
\* asks to float and to Tile otherwise.
C13_ManageAppends ==
    [][last'.op = "manageClient" =>
        LET w == last'.win
        IN  IF last'.ignore
            THEN windows' = windows /\ state'[w] = state[w]
            ELSE /\ Len(windows') = Len(windows) + 1
                 /\ windows'[Len(windows')] = w
                 /\ \A i \in 1..Len(windows) : windows'[i] = windows[i]
                 /\ state'[w] = IF last'.float THEN "Float" ELSE "Tile"]_vars

C13_Witness ==
    /\ last.op = "manageClient" /\ ~last.ignore /\ last.float
    /\ Len(windows) = 3 /\ windows[3] = last.win
    /\ last.win \notin Range(last.pre)
    /\ state[last.win] = "Float"

\* C14: moveTile leaves the window list unchanged when there is no current
\* window, when the current window is not in the managed list or not in the
\* visible subset of its context, or when fewer than two windows are
\* visible; moveFocus asks for no focus change when no window is visible.
\* (Stated for lists that hold every window once, so that a failure does not
\* come from a duplicate entry.)
C14_DegenerateNoOps ==
    preNoDuplicates =>
        /\ (last.op = "moveTile"
                /\ (last.win = None \/ last.idx < 0 \/ last.num < 2))
               => windows = last.pre
        /\ (last.op = "moveFocus" /\ last.num = 0) => last.focus = <<>>

\* C15: when moveTile(step) acts, with the current window at visible index i
\* of N >= 2 visible windows and destination (i + step) mod N other than i,
\* it exchanges the list positions of the current window and of the window
\* at the destination visible index, and every other entry stays where it is.
C15_MoveTileSwapsTwo ==
    (last.op = "moveTile" /\ last.step # 0 /\ last.idx >= 0 /\ last.num >= 2
        /\ (last.idx + last.step) % last.num # last.idx) =>
        LET pre == last.pre
            src == visiblePos(pre, last.ctx, last.idx)
            dest == visiblePos(pre, last.ctx, (last.idx + last.step) % last.num)
        IN  /\ Len(windows) = Len(pre)
            /\ windows[src] = pre[dest]
            /\ windows[dest] = pre[src]
            /\ \A i \in 1..Len(pre) : i \notin {src, dest} => windows[i] = pre[i]

\* C19: moveFocus, moveTile and setMaster leave the window list a permutation
\* of what it was before the call, whatever window the driver reports as
\* current, a window the engine does not manage included.  (Stated for lists
\* that hold every window once, so that a failure does not come from a
\* duplicate entry.)
C19_ListPermuted ==
    (preNoDuplicates /\ last.op \in {"moveFocus", "moveTile", "setMaster"}) =>
        \A w \in Windows \cup {None} : count(windows, w) = count(last.pre, w)

\* C17: an arrangeScreen(ctx) pass calls commit exactly once on every window
\* visible in ctx, tiled or not, and on no window that is not visible in ctx.
C17_CommitOncePerVisible ==
    last.op = "arrangeScreen" =>
        \A w \in Windows :
            count(last.commits, w) =
                IF w \in Range(windows) /\ visible(w, last.ctx) THEN 1 ELSE 0

\* C20: arrangeScreen(ctx) changes the state, borderless flag and geometry
\* of no window other than those visible in ctx and Tile or FreeTile, leaves
\* the order of the window list alone, and changes no geometry when ctx has
\* no tiles.
C20_ArrangeFrame ==
    [][last'.op = "arrangeScreen" =>
        LET tiled == {w \in Range(windows) :
                         visible(w, last'.ctx) /\ isTileState(state[w])}
        IN  /\ windows' = windows
            /\ \A w \in Windows \ tiled :
                   /\ state'[w] = state[w]
                   /\ noBorder'[w] = noBorder[w]
                   /\ geometry'[w] = geometry[w]
            /\ tiled = {} => geometry' = geometry]_vars

C20_Witness ==
    /\ last.op = "arrangeScreen"
    /\ \E w \in Range(windows) : visible(w, last.ctx) /\ state[w] = "Float"
    /\ \E w \in Range(windows) :
           visible(w, last.ctx) /\ state[w] = "Tile" /\ geometry[w] # InitGeometry

\* C11: every handleUserInput call, whatever the input kind, whether or not
\* the layout takes the input and whether or not there is a current window,
\* ends with exactly one arrange(), and that arrange() runs arrangeScreen
\* exactly once for each context the driver reports.
C11_InputAlwaysArranges ==
    last.op = "handleUserInput" =>
        /\ last.calls = 1
        /\ Len(last.screens) = Len(ScreenOrder)
        /\ \A c \in Contexts : count(last.screens, c) = 1

C11_Witness ==
    /\ last.op = "handleUserInput" /\ last.handled /\ last.win = None
    /\ last.input = "Left"
    /\ last.calls = 1 /\ last.screens = ScreenOrder

\* C16: when the handler of the active layout reports the input as handled,
\* handleUserInput does none of its own dispatch: the window list, the
\* focused window and the layout selection are as before, no focus change is
\* asked for, and the only state changes are those of the closing arrange()
\* (visible FreeTile windows become Tile).  When the layout has no handler
\* or reports not handled, the dispatch of the input kind runs.
C16_OverrideSkipsDispatch ==
    [][last'.op = "handleUserInput" =>
        LET input == last'.input
            ctx == IF current # None THEN context[current] ELSE curCtx
        IN  IF last'.handled
            THEN /\ windows' = windows
                 /\ current' = current
                 /\ layouts' = layouts
                 /\ last'.focus = <<>>
                 /\ \A w \in Windows :
                        \/ state'[w] = state[w]
                        \/ state[w] = "FreeTile" /\ state'[w] = "Tile"
            ELSE /\ (input = "Float" /\ current # None) =>
                        state'[current] =
                            IF state[current] = "Float" THEN "Tile" ELSE "Float"
                 /\ input = "CycleLayout" =>
                        layouts'[curCtx] # layouts[curCtx]
                 /\ input = "SetLayout" => layouts'[curCtx] = last'.data
                 /\ (input = "SetMaster" /\ current \in Range(windows)) =>
                        windows'[1] = current
                 /\ (input \in {"Up", "Down"} /\ visiblesOf(ctx) # <<>>) =>
                        /\ last'.focus # <<>>
                        /\ current' = last'.focus[1]
                        /\ current' \in Range(visiblesOf(ctx))
                 /\ (input \in {"ShiftUp", "ShiftDown"}
                        /\ current \in Range(visiblesOf(ctx))
                        /\ Len(visiblesOf(ctx)) >= 2
                        /\ Cardinality(Range(windows)) = Len(windows)) =>
                        windows' # windows]_vars

\* the layout took a Float input while a Tile window was current
C16_Witness ==
    /\ last.op = "handleUserInput" /\ last.handled /\ last.input = "Float"
    /\ last.win # None /\ last.win = current
    /\ last.preState = "Tile" /\ state[current] = "Tile"
    /\ Cardinality(Range(windows)) >= 2

\* C18, as first stated: the Float input turns a Float current window into
\* Tile and a Tile one into Float, two consecutive Float inputs on the same
\* current window restore its original state, no state of any other window
\* changes, and with no current window no state changes.
C18_FloatTogglesOnly ==
    [][(last'.op = "handleUserInput" /\ last'.input = "Float") =>
        /\ (current # None /\ state[current] = "Float") =>
               state'[current] = "Tile"
        /\ (current # None /\ state[current] = "Tile") =>
               state'[current] = "Float"
        /\ (current # None /\ last'.paired) =>
               state'[current] = last'.origState
        /\ \A w \in Windows \ {current} : state'[w] = state[w]
        /\ current = None => state' = state]_vars

\* C18: when the layout does not take it and there is a current window, the
\* Float input sets the state of the current window to Tile if it was Float
\* and to Float otherwise; two consecutive such inputs on the same current
\* window restore its original state when that state was Tile or Float; the
\* state of any other window changes only by the closing arrange() turning a
\* FreeTile window into Tile, and so does any state when there is no current
\* window.
C18_FloatToggle ==
    [][(last'.op = "handleUserInput" /\ last'.input = "Float"
            /\ ~last'.handled) =>
        /\ current # None =>
               state'[current] =
                   IF state[current] = "Float" THEN "Tile" ELSE "Float"
        /\ (current # None /\ last'.paired
                /\ last'.origState \in {"Tile", "Float"}) =>
               state'[current] = last'.origState
        /\ \A w \in Windows \ {current} :
               \/ state'[w] = state[w]
               \/ state[w] = "FreeTile" /\ state'[w] = "Tile"]_vars

\* a second Float input gave a Float window its state back
C18_Witness ==
    /\ last.op = "handleUserInput" /\ last.input = "Float" /\ ~last.handled
    /\ last.paired /\ last.origState = "Float" /\ last.preState = "Tile"
    /\ current # None /\ current = last.win /\ state[current] = "Float"
    /\ Cardinality(Range(windows)) >= 2

====
